---------------------------- MODULE Spec2Model ----------------------------
(***************************************************************************)
(* A model of scripts/merge-cjk-font.py: the pure helpers                  *)
(* (expand_prefer_order, validate_fonts, build_target), the ownership      *)
(* partition loop of main, and main's orchestration of subsetting, merge,  *)
(* rename and cleanup.                                                     *)
(*                                                                         *)
(* Representation.  A Python str is a tuple of one-character strings, so   *)
(* that strip(), split(",") and f"latin{i}" are computed and not assumed.  *)
(* A decoded corpus text is a tuple of characters, a character the         *)
(* one-element tuple of its codepoint.  A falsy optional argument (None,   *)
(* "" or []) is the empty tuple or the empty string: the script only ever  *)
(* tests such arguments for truthiness.                                    *)
(*                                                                         *)
(* The variables are the locals of main and the parts of the file system   *)
(* it touches.  Each specification below exercises one phase of main on    *)
(* its own input space and leaves the other variables at rest.             *)
(***************************************************************************)
EXTENDS Integers, Sequences, FiniteSets, TLC

VARIABLES
    pc,            \* position in main, or in the function being exercised
    args,          \* the parsed command line (argparse namespace)
    latin_tags,    \* main: latin_tags
    font_map,      \* main: font_map, tag -> path
    tokens,        \* expand_prefer_order: its tokens argument
    resolved,      \* main: order as resolved at lines 264-268, before the filter
    order,         \* main: order
    fonts,         \* the font files read by validate_fonts, tag -> tables
    verdict,       \* outcome of validate_fonts
    warned,        \* validate_fonts printed the variable-font warning
    target,        \* main: target
    support,       \* main: support, tag -> set of codepoints
    assigned,      \* main: assigned, tag -> set of codepoints
    unassigned,    \* main: unassigned
    queue,         \* partition loop: the list sorted(target) being iterated
    cursor,        \* partition loop: number of codepoints of queue done
    tmp_dir,       \* the directory made by mkdtemp exists
    tmp_files,     \* the files that exist inside tmp_dir
    subset_paths,  \* main: subset_paths
    idx,           \* subset loop: number of tags of order done
    out_file,      \* what is at args.out
    error,         \* the exception main is propagating ("" when none)
    merge_calls,   \* number of calls of run_pyftmerge
    merge_inputs,  \* the font_paths argument of the last run_pyftmerge call
    merge_saw,     \* the files of tmp_dir at the time of that call
    subset_calls,  \* the tags subset_font was called for
    tmp_made,      \* mkdtemp has been called in this run
    fonts_read,    \* number of font files opened so far (TTFont(...))
    removal_failed \* an os.remove / os.rmdir failed for a reason of its own

vars == <<pc, args, latin_tags, font_map, tokens, resolved, order, fonts, verdict, warned,
          target, support, assigned, unassigned, queue, cursor, tmp_dir,
          tmp_files,
          subset_paths, idx, out_file, error, merge_calls, merge_inputs,
          merge_saw, subset_calls, tmp_made, fonts_read, removal_failed>>

cliVars  == <<args, latin_tags, font_map, tokens, resolved>>
valVars  == <<fonts, verdict, warned>>
partVars == <<target, support, assigned, unassigned, queue, cursor>>
runVars  == <<tmp_dir, tmp_files, subset_paths, idx, out_file, error,
              merge_calls, merge_inputs, merge_saw, subset_calls, tmp_made,
              removal_failed>>

-----------------------------------------------------------------------------
(* Bounds of the model *)

MaxTokens == 3
MaxLatin == 2

-----------------------------------------------------------------------------
(* Strings *)

Range(s) == {s[i] : i \in 1..Len(s)}

SeqsUpTo(S, n) == UNION {[1..k -> S] : k \in 0..n}

Whitespace == {" ", "\t"}

LATIN == <<"l", "a", "t", "i", "n">>
ZH_TW == <<"z", "h", "-", "t", "w">>
ZH_CN == <<"z", "h", "-", "c", "n">>
JA == <<"j", "a">>

Digits == <<"0", "1", "2", "3", "4", "5", "6", "7", "8", "9">>

\* f"latin{i}" for a one-digit i
LatinTag(i) == LATIN \o <<Digits[i + 1]>>

\* [f"latin{i}" for i in range(n)]
LatinTags(n) == [k \in 1..n |-> LatinTag(k - 1)]

RECURSIVE lstrip(_)
lstrip(s) ==
    IF s # <<>> /\ Head(s) \in Whitespace THEN lstrip(Tail(s)) ELSE s

RECURSIVE rstrip(_)
rstrip(s) ==
    IF s # <<>> /\ s[Len(s)] \in Whitespace
    THEN rstrip(SubSeq(s, 1, Len(s) - 1))
    ELSE s

strip_left_only(s) == lstrip(s)

\* str.strip()
strip(s) == rstrip(lstrip(s))

-----------------------------------------------------------------------------
(* expand_prefer_order *)

\* first loop: trim, drop empty tokens, expand "latin"
RECURSIVE ExpandLoop(_, _, _)
ExpandLoop(toks, latin, expanded) ==
    IF toks = <<>> THEN expanded
    ELSE LET t == strip(Head(toks))
         IN  IF t = <<>> THEN ExpandLoop(Tail(toks), latin, expanded)
             ELSE IF t = LATIN
                  THEN ExpandLoop(Tail(toks), latin, expanded \o latin)
                  ELSE ExpandLoop(Tail(toks), latin, Append(expanded, t))

\* second loop: keep the first occurrence of each tag
RECURSIVE DedupLoop(_, _, _)
DedupLoop(expanded, seen, out) ==
    IF expanded = <<>> THEN out
    ELSE LET t == Head(expanded)
         IN  IF t \notin seen
             THEN DedupLoop(Tail(expanded), seen \cup {t}, Append(out, t))
             ELSE DedupLoop(Tail(expanded), seen, out)

expand_no_dedup(toks, latin) == ExpandLoop(toks, latin, <<>>)

expand_prefer_order(toks, latin) ==
    DedupLoop(ExpandLoop(toks, latin, <<>>), {}, <<>>)

-----------------------------------------------------------------------------
(* Values of the variables a specification does not use *)

NoArgs ==
    [latin |-> <<>>, zh_tw |-> "", zh_cn |-> "", ja |-> "",
     corpus |-> <<>>, prefer_order |-> <<>>,
     add_latin1 |-> FALSE, add_cjk_punct |-> FALSE,
     add_jp_syllabaries |-> FALSE, add_halfwidth |-> FALSE,
     add_han_basic |-> FALSE]

CliAtRest ==
    /\ args = NoArgs
    /\ latin_tags = <<>>
    /\ font_map = <<>>
    /\ tokens = <<>>
    /\ resolved = <<>>

ValAtRest ==
    /\ fonts = <<>>
    /\ verdict = ""
    /\ warned = FALSE

PartAtRest ==
    /\ target = {}
    /\ support = <<>>
    /\ assigned = <<>>
    /\ unassigned = 0
    /\ queue = <<>>
    /\ cursor = 0

RunAtRest ==
    /\ tmp_dir = FALSE
    /\ tmp_files = {}
    /\ subset_paths = <<>>
    /\ idx = 0
    /\ out_file = "absent"
    /\ error = ""
    /\ merge_calls = 0
    /\ merge_inputs = <<>>
    /\ merge_saw = {}
    /\ subset_calls = {}
    /\ tmp_made = FALSE
    /\ removal_failed = FALSE

-----------------------------------------------------------------------------
(* SpecExpand: expand_prefer_order on every token list over TokenPool *)

TokenPool ==
    { LATIN,
      <<" ">> \o LATIN \o <<" ">>,
      ZH_TW,
      ZH_CN \o <<"\t">>,
      JA,
      LatinTag(0),
      <<>>,
      <<" ", " ">> }

InitExpand ==
    /\ pc = "expand"
    /\ tokens \in SeqsUpTo(TokenPool, MaxTokens)
    /\ \E n \in 1..MaxLatin : latin_tags = LatinTags(n)
    /\ args = NoArgs
    /\ font_map = <<>>
    /\ resolved = <<>>
    /\ order = <<>>
    /\ fonts_read = 0
    /\ ValAtRest /\ PartAtRest /\ RunAtRest

ExpandPreferOrder ==
    /\ pc = "expand"
    /\ order' = expand_prefer_order(tokens, latin_tags)
    /\ pc' = "expanded"
    /\ UNCHANGED <<cliVars, valVars, partVars, runVars, fonts_read>>

NextExpand == ExpandPreferOrder

SpecExpand == InitExpand /\ [][NextExpand]_vars

\* the trimmed token, stated without the loops of strip
Trimmed(s) ==
    LET ink == {i \in 1..Len(s) : s[i] \notin Whitespace}
    IN  IF ink = {} THEN <<>>
        ELSE SubSeq(s, CHOOSE a \in ink : \A b \in ink : a <= b,
                       CHOOSE a \in ink : \A b \in ink : a >= b)

\* what token k contributes to the expanded list
Yield(k) ==
    LET t == Trimmed(tokens[k])
    IN  IF t = <<>> THEN <<>> ELSE IF t = LATIN THEN latin_tags ELSE <<t>>

\* the places <<k, j>> of the expanded list that hold tag x
Places(x) ==
    {p \in (1..Len(tokens)) \X (1..(Len(latin_tags) + 1)) :
        p[2] <= Len(Yield(p[1])) /\ Yield(p[1])[p[2]] = x}

Before(p, q) == p[1] < q[1] \/ (p[1] = q[1] /\ p[2] < q[2])

FirstPlace(x) == CHOOSE p \in Places(x) : \A q \in Places(x) : p = q \/ Before(p, q)

AllYielded == UNION {Range(Yield(k)) : k \in 1..Len(tokens)}

ExampleTokens == <<LATIN, ZH_TW, LATIN>>

(* C3: expand_prefer_order returns the tags yielded by the trimmed, non-empty
   tokens ("latin" replaced in place by latin_tags), each once, in the order
   of their first occurrence; no duplicate, no empty string; and
   (["latin","zh-tw","latin"], ["latin0","latin1"]) gives
   ["latin0","latin1","zh-tw"]. *)
C3_ExpandPreferOrder ==
    pc = "expanded" =>
        /\ Range(order) = AllYielded
        /\ \A i \in 1..Len(order) : order[i] # <<>>
        /\ \A i, j \in 1..Len(order) : i # j => order[i] # order[j]
        /\ \A i, j \in 1..Len(order) :
              i < j => Before(FirstPlace(order[i]), FirstPlace(order[j]))
        /\ (tokens = ExampleTokens /\ latin_tags = LatinTags(2))
              => order = <<LatinTag(0), LatinTag(1), ZH_TW>>

C3_Witness ==
    /\ pc = "expanded"
    /\ tokens = ExampleTokens
    /\ latin_tags = LatinTags(2)
    /\ order = <<LatinTag(0), LatinTag(1), ZH_TW>>

-----------------------------------------------------------------------------
(* validate_fonts *)

MaxFonts == 3

UPEM_MISMATCH == "unitsPerEm mismatch across inputs (must match for merge)."
OUTLINE_MISMATCH == "Mixed TrueType (glyf) and CFF/CFF2 inputs."

\* the outline kind the loop adds to outline_kinds for one font
OutlineKindGlyfFirst(f) ==
    IF f.glyf THEN "glyf"
    ELSE IF f.cff \/ f.cff2 THEN "cff"
    ELSE "unknown"

OutlineKind(f) ==
    LET has_glyf == f.glyf
        has_cff == f.cff \/ f.cff2
    IN  IF has_glyf /\ has_cff THEN "mixed-in-one"
        ELSE IF has_glyf THEN "glyf"
        ELSE IF has_cff THEN "cff"
        ELSE "unknown"

\* the loop over order: upems, outline_kinds, var_flags
RECURSIVE ValidateLoop(_, _, _)
ValidateLoop(ord, fs, st) ==
    IF ord = <<>> THEN st
    ELSE LET tag == Head(ord)
             f == fs[tag]
         IN  ValidateLoop(Tail(ord), fs,
                 [upems |-> [t \in DOMAIN st.upems \cup {tag} |->
                                IF t = tag THEN f.upem ELSE st.upems[t]],
                  outline_kinds |-> st.outline_kinds \cup {OutlineKind(f)},
                  var_flags |-> [t \in DOMAIN st.var_flags \cup {tag} |->
                                IF t = tag THEN f.fvar ELSE st.var_flags[t]]])

validate_fonts(ord, fs) ==
    LET st == ValidateLoop(ord, fs,
                  [upems |-> <<>>, outline_kinds |-> {}, var_flags |-> <<>>])
    IN  IF Cardinality({st.upems[t] : t \in DOMAIN st.upems}) > 1
        THEN [verdict |-> UPEM_MISMATCH, warned |-> FALSE]
        ELSE IF "glyf" \in st.outline_kinds /\ "cff" \in st.outline_kinds
        THEN [verdict |-> OUTLINE_MISMATCH, warned |-> FALSE]
        ELSE [verdict |-> "ok",
              warned |-> \E t \in DOMAIN st.var_flags : st.var_flags[t]]

-----------------------------------------------------------------------------
(* SpecValidate: validate_fonts on every combination of font tables *)

\* what validate_fonts reads of one font file
FontFiles ==
    [upem : {1000, 2048}, glyf : BOOLEAN, cff : BOOLEAN, cff2 : BOOLEAN,
     fvar : BOOLEAN]

AllTags == <<LatinTag(0), ZH_TW, ZH_CN, JA, LatinTag(1)>>

InitValidate ==
    /\ pc = "validate"
    /\ \E n \in 1..MaxFonts :
          /\ order = [k \in 1..n |-> IF k <= Len(AllTags) THEN AllTags[k]
                                     ELSE LatinTag(k - 4)]
    /\ fonts \in [Range(order) -> FontFiles]
    /\ verdict = ""
    /\ warned = FALSE
    /\ fonts_read = 0
    /\ CliAtRest /\ PartAtRest /\ RunAtRest

ValidateFonts ==
    /\ pc = "validate"
    /\ LET r == validate_fonts(order, fonts)
       IN  /\ verdict' = r.verdict
           /\ warned' = r.warned
    /\ fonts_read' = fonts_read + Len(order)
    /\ pc' = "validated"
    /\ UNCHANGED <<cliVars, order, fonts, partVars, runVars>>

NextValidate == ValidateFonts

SpecValidate == InitValidate /\ [][NextValidate]_vars

GlyfOnly(f) == f.glyf /\ ~f.cff /\ ~f.cff2
CffOnly(f) == ~f.glyf /\ (f.cff \/ f.cff2)
UpemClash == \E a, b \in Range(order) : fonts[a].upem # fonts[b].upem
OutlineClash ==
    \E a, b \in Range(order) : GlyfOnly(fonts[a]) /\ CffOnly(fonts[b])

(* C4: validate_fonts fails with the units-per-em error iff two fonts of
   order differ in unitsPerEm; otherwise with the outline error iff one font
   is glyf-only and another CFF/CFF2-only; otherwise it succeeds, a font with
   both table families or with neither is not fatal, and fvar only warns. *)
C4_ValidateOutcome ==
    pc = "validated" =>
        /\ verdict \in {UPEM_MISMATCH, OUTLINE_MISMATCH, "ok"}
        /\ verdict = UPEM_MISMATCH <=> UpemClash
        /\ verdict = OUTLINE_MISMATCH <=> (~UpemClash /\ OutlineClash)
        /\ verdict = "ok" <=> (~UpemClash /\ ~OutlineClash)
        /\ warned <=> (verdict = "ok" /\ \E t \in Range(order) : fonts[t].fvar)
        /\ (\A t \in Range(order) : fonts[t].upem = 1000 /\ CffOnly(fonts[t]))
              => verdict = "ok"

C4_Witness ==
    /\ pc = "validated"
    /\ verdict = OUTLINE_MISMATCH
    /\ Len(order) = 3
    /\ \E t \in Range(order) : fonts[t].glyf /\ fonts[t].cff /\ fonts[t].fvar

-----------------------------------------------------------------------------
(* build_target *)

\* Python range(lo, hi)
PyRange(lo, hi) == lo..(hi - 1)

ASCII_BASIC == PyRange(32, 127)         \* range(0x20, 0x7F)
LATIN_1_SUP == PyRange(160, 256)        \* range(0x00A0, 0x0100)
CJK_PUNCT == <<12288, 12351>>           \* (0x3000, 0x303F)
HIRAGANA == <<12352, 12447>>            \* (0x3040, 0x309F)
KATAKANA == <<12448, 12543>>            \* (0x30A0, 0x30FF)
HALFWIDTH == <<65280, 65519>>           \* (0xFF00, 0xFFEF)
CJK_UNIFIED == <<19968, 40959>>         \* (0x4E00, 0x9FFF)
CJK_EXT_A == <<13312, 19903>>           \* (0x3400, 0x4DBF)
CJK_COMPAT == <<63744, 64255>>          \* (0xF900, 0xFAFF)

\* a character is a str of length one; ord gives its codepoint
Chr(cp) == <<cp>>
PyOrd(c) == c[1]

\* the texts are what open(p, encoding="utf-8", errors="ignore").read() gives
read_corpus_chars(paths) ==
    LET chars == UNION {Range(paths[i]) : i \in 1..Len(paths)}
    IN  {c \in chars : Len(c) = 1}

chars_to_codepoints(chars) == {PyOrd(c) : c \in chars}

add_range_exclusive(s, lo, hi) == s \cup PyRange(lo, hi)

add_range(s, lo, hi) == s \cup PyRange(lo, hi + 1)

build_target(a) ==
    LET t0 == ASCII_BASIC
        t1 == IF a.corpus # <<>>
              THEN t0 \cup chars_to_codepoints(read_corpus_chars(a.corpus))
              ELSE t0
        t2 == IF a.add_latin1 THEN t1 \cup LATIN_1_SUP ELSE t1
        t3 == IF a.add_cjk_punct
              THEN add_range(t2, CJK_PUNCT[1], CJK_PUNCT[2]) ELSE t2
        t4 == IF a.add_jp_syllabaries
              THEN add_range(add_range(t3, HIRAGANA[1], HIRAGANA[2]),
                             KATAKANA[1], KATAKANA[2])
              ELSE t3
        t5 == IF a.add_halfwidth
              THEN add_range(t4, HALFWIDTH[1], HALFWIDTH[2]) ELSE t4
        t6 == IF a.add_han_basic
              THEN add_range(add_range(add_range(t5,
                       CJK_UNIFIED[1], CJK_UNIFIED[2]),
                       CJK_EXT_A[1], CJK_EXT_A[2]),
                       CJK_COMPAT[1], CJK_COMPAT[2])
              ELSE t5
    IN  t6

-----------------------------------------------------------------------------
(* SpecTarget: build_target on every flag combination and small corpora *)

MaxCorpus == 1

\* decoded corpus files: empty; "AB", U+4E2D, "A"; U+00E9, U+1F600, U+3042
TextPool ==
    { <<>>,
      <<Chr(65), Chr(66), Chr(20013), Chr(65)>>,
      <<Chr(233), Chr(128512), Chr(12354)>> }

InitTarget ==
    /\ pc = "target"
    /\ args \in [latin : {<<>>}, zh_tw : {""}, zh_cn : {""}, ja : {""},
                 corpus : SeqsUpTo(TextPool, MaxCorpus),
                 prefer_order : {<<>>},
                 add_latin1 : BOOLEAN, add_cjk_punct : BOOLEAN,
                 add_jp_syllabaries : BOOLEAN, add_halfwidth : BOOLEAN,
                 add_han_basic : BOOLEAN]
    /\ latin_tags = <<>>
    /\ font_map = <<>>
    /\ tokens = <<>>
    /\ resolved = <<>>
    /\ order = <<>>
    /\ fonts_read = 0
    /\ ValAtRest /\ PartAtRest /\ RunAtRest

BuildTarget ==
    /\ pc = "target"
    /\ target' = build_target(args)
    /\ pc' = "built"
    /\ UNCHANGED <<cliVars, order, valVars, support, assigned, unassigned,
                   queue, cursor, runVars, fonts_read>>

NextTarget == BuildTarget

SpecTarget == InitTarget /\ [][NextTarget]_vars

NoFlags ==
    /\ ~args.add_latin1 /\ ~args.add_cjk_punct /\ ~args.add_jp_syllabaries
    /\ ~args.add_halfwidth /\ ~args.add_han_basic

(* C8: build_target returns exactly printable ASCII 0x20..0x7E, plus the
   codepoints of the corpus characters, plus the inclusive range of each
   enabled block flag; alone it is the 95 ASCII codepoints, and with only
   add-jp-syllabaries it is those plus the 192 codepoints 0x3040..0x30FF. *)
C8_BuildTarget ==
    pc = "built" =>
        /\ target =
              (32..126)
              \cup UNION {{c[1] : c \in Range(args.corpus[i])} :
                            i \in 1..Len(args.corpus)}
              \cup (IF args.add_latin1 THEN 160..255 ELSE {})
              \cup (IF args.add_cjk_punct THEN 12288..12351 ELSE {})
              \cup (IF args.add_jp_syllabaries THEN 12352..12543 ELSE {})
              \cup (IF args.add_halfwidth THEN 65280..65519 ELSE {})
              \cup (IF args.add_han_basic
                    THEN (19968..40959) \cup (13312..19903) \cup (63744..64255)
                    ELSE {})
        /\ Cardinality(target \cap (32..126)) = 95
        /\ (args.corpus = <<>> /\ NoFlags) => Cardinality(target) = 95
        /\ (/\ args.corpus = <<>>
            /\ args.add_jp_syllabaries
            /\ ~args.add_latin1 /\ ~args.add_cjk_punct
            /\ ~args.add_halfwidth /\ ~args.add_han_basic)
              => /\ Cardinality(target) = 95 + 192
                 /\ Cardinality(target \ (32..126)) = 192
                 /\ target \ (32..126) = 12352..12543

C8_Witness ==
    /\ pc = "built"
    /\ args.corpus = <<>>
    /\ args.add_jp_syllabaries
    /\ ~args.add_latin1 /\ ~args.add_cjk_punct
    /\ ~args.add_halfwidth /\ ~args.add_han_basic
    /\ Cardinality(target) = 287

-----------------------------------------------------------------------------
(* The ownership partition loop of main *)

MaxOwners == 2

\* the codepoints the partition is exercised on: 0x41..0x44
Codepoints == 65..68

\* sorted(target): the k-th element is the one with k elements at or below it
sorted(S) ==
    [k \in 1..Cardinality(S) |->
        CHOOSE x \in S : Cardinality({y \in S : y <= x}) = k]

LastOwner(u, ord, sup) ==
    LET hits == {i \in 1..Len(ord) : u \in sup[ord[i]]}
    IN  IF hits = {} THEN <<>>
        ELSE ord[CHOOSE i \in hits : \A j \in hits : j <= i]

\* the inner loop: the first tag of order whose support holds u, or None
\* (None is the empty string: the code tests `if owner`)
RECURSIVE Owner(_, _, _)
Owner(u, ord, sup) ==
    IF ord = <<>> THEN <<>>
    ELSE IF u \in sup[Head(ord)] THEN Head(ord)
    ELSE Owner(u, Tail(ord), sup)

partition_step_no_count(u, ord, sup, st) ==
    LET owner == Owner(u, ord, sup)
    IN  IF owner # <<>>
        THEN [assigned |-> [st.assigned EXCEPT ![owner] = @ \cup {u}],
              unassigned |-> st.unassigned]
        ELSE st

\* one iteration of `for u in sorted(target)`
partition_step(u, ord, sup, st) ==
    LET owner == Owner(u, ord, sup)
    IN  IF owner # <<>>
        THEN [assigned |-> [st.assigned EXCEPT ![owner] = @ \cup {u}],
              unassigned |-> st.unassigned]
        ELSE [assigned |-> st.assigned, unassigned |-> st.unassigned + 1]

\* assigned = {tag: set() for tag in order}; unassigned = 0
partition_start(ord) ==
    [assigned |-> [t \in Range(ord) |-> {}], unassigned |-> 0]

-----------------------------------------------------------------------------
(* SpecPartition: the loop, one codepoint a step, on every target, order
   and coverage over Codepoints *)

InitPartition ==
    /\ pc = "partition_begin"
    /\ target \in SUBSET Codepoints
    /\ \E n \in 1..MaxOwners : order = [k \in 1..n |-> AllTags[k]]
    /\ support \in [Range(order) -> SUBSET Codepoints]
    /\ assigned = <<>>
    /\ unassigned = 0
    /\ queue = <<>>
    /\ cursor = 0
    /\ fonts_read = 0
    /\ CliAtRest /\ ValAtRest /\ RunAtRest

\* lines 280-283: the empty assignment, and the list the loop iterates
PartitionBegin ==
    /\ pc = "partition_begin"
    /\ assigned' = partition_start(order).assigned
    /\ unassigned' = partition_start(order).unassigned
    /\ queue' = sorted(target)
    /\ cursor' = 0
    /\ pc' = "partition"
    /\ UNCHANGED <<cliVars, order, valVars, target, support, runVars,
                   fonts_read>>

\* lines 283-292: one iteration
PartitionStep ==
    /\ pc = "partition"
    /\ cursor < Len(queue)
    /\ LET u == queue[cursor + 1]
           st == partition_step(u, order, support,
                     [assigned |-> assigned, unassigned |-> unassigned])
       IN  /\ assigned' = st.assigned
           /\ unassigned' = st.unassigned
    /\ cursor' = cursor + 1
    /\ UNCHANGED <<pc, cliVars, order, valVars, target, support, queue,
                   runVars, fonts_read>>

\* the loop is through; line 294 is next
PartitionEnd ==
    /\ pc = "partition"
    /\ cursor = Len(queue)
    /\ pc' = "mkdtemp"
    /\ UNCHANGED <<cliVars, order, valVars, partVars, runVars, fonts_read>>

NextPartition == PartitionBegin \/ PartitionStep \/ PartitionEnd

SpecPartition == InitPartition /\ [][NextPartition]_vars

\* the target codepoints the loop has been through
Seen == {queue[k] : k \in 1..cursor}

Uncovered(T) == {u \in T : \A t \in Range(order) : u \notin support[t]}

RECURSIVE SumSizes(_)
SumSizes(ts) ==
    IF ts = {} THEN 0
    ELSE LET t == CHOOSE x \in ts : TRUE
         IN  Cardinality(assigned[t]) + SumSizes(ts \ {t})

(* C1: the per-font assignments are pairwise disjoint subsets of the target;
   with the target codepoints no font of the order covers they make up
   exactly the target; unassigned is the target's size less the sizes of the
   assignments.  (Stated of every loop state, of the codepoints seen.) *)
C1_PartitionInvariant ==
    pc \in {"partition", "mkdtemp"} =>
        /\ pc = "mkdtemp" => Seen = target
        /\ \A i, j \in 1..Len(queue) : i < j => queue[i] < queue[j]
        /\ DOMAIN assigned = Range(order)
        /\ \A a, b \in Range(order) :
              a # b => assigned[a] \cap assigned[b] = {}
        /\ \A a \in Range(order) : assigned[a] \subseteq target
        /\ UNION {assigned[a] : a \in Range(order)} \cup Uncovered(Seen) = Seen
        /\ UNION {assigned[a] : a \in Range(order)} \cap Uncovered(Seen) = {}
        /\ unassigned = Cardinality(Seen) - SumSizes(Range(order))
        /\ unassigned = Cardinality(Uncovered(Seen))

C1_Witness ==
    /\ pc = "mkdtemp"
    /\ Len(order) = 2
    /\ unassigned = 1
    /\ Cardinality(target) = 3
    /\ \A t \in Range(order) : assigned[t] # {} /\ assigned[t] # support[t]
    /\ support[order[1]] \cap support[order[2]] \cap target # {}

\* the set-difference formulation: remaining = T \ alreadyAssigned;
\* assign[font] = remaining \cap coverage[font]
RECURSIVE Cumulative(_, _, _)
Cumulative(ord, already, acc) ==
    IF ord = <<>> THEN acc
    ELSE LET font == Head(ord)
             remaining == target \ already
             mine == remaining \cap support[font]
         IN  Cumulative(Tail(ord), already \cup mine,
                        [t \in DOMAIN acc \cup {font} |->
                            IF t = font THEN mine ELSE acc[t]])

ExampleSupport ==
    [t \in {AllTags[1], AllTags[2]} |->
        IF t = AllTags[1] THEN {65, 66} ELSE {66, 67}]

(* C2: first match wins: each target codepoint is owned by the earliest font
   of the order that covers it and by no other; assigned[O[i]] is
   (T \cap coverage[O[i]]) less the coverage of every earlier font, which is
   what the cumulative set-difference formulation computes; A={0x41,0x42},
   B={0x42,0x43}, order [A,B], target 0x41..0x44 gives A={0x41,0x42},
   B={0x43}, one unassigned. *)
C2_FirstMatchWins ==
    pc = "mkdtemp" =>
        /\ \A i \in 1..Len(order) :
              assigned[order[i]] =
                  (target \cap support[order[i]])
                      \ UNION {support[order[j]] : j \in 1..(i - 1)}
        /\ \A u \in target : \A i \in 1..Len(order) :
              u \in assigned[order[i]] <=>
                  /\ u \in support[order[i]]
                  /\ \A j \in 1..(i - 1) : u \notin support[order[j]]
        /\ assigned = Cumulative(order, {}, <<>>)
        /\ (Len(order) = 2 /\ support = ExampleSupport /\ target = 65..68)
              => /\ assigned[order[1]] = {65, 66}
                 /\ assigned[order[2]] = {67}
                 /\ unassigned = 1

C2_Witness ==
    /\ pc = "mkdtemp"
    /\ Len(order) = 2
    /\ support = ExampleSupport
    /\ target = 65..68
    /\ assigned[order[1]] = {65, 66}
    /\ assigned[order[2]] = {67}
    /\ unassigned = 1

-----------------------------------------------------------------------------
(* main, lines 254-274: the font map, the resolved order, the filter *)

MaxFields == 2

NO_VALID_FONTS == "No valid fonts in prefer order."

\* s.split(","): the fields between the commas, at least one
RECURSIVE SplitLoop(_, _, _)
SplitLoop(s, cur, acc) ==
    IF s = <<>> THEN Append(acc, cur)
    ELSE IF Head(s) = "," THEN SplitLoop(Tail(s), <<>>, Append(acc, cur))
    ELSE SplitLoop(Tail(s), Append(cur, Head(s)), acc)

split(s) == SplitLoop(s, <<>>, <<>>)

\* ",".join(fields)
RECURSIVE join(_)
join(fields) ==
    IF fields = <<>> THEN <<>>
    ELSE IF Len(fields) = 1 THEN fields[1]
    ELSE fields[1] \o <<",">> \o join(Tail(fields))

\* lines 254-262
build_font_map(a, ltags) ==
    LET keys == Range(ltags) \cup {ZH_TW, ZH_CN}
                    \cup (IF a.ja # "" THEN {JA} ELSE {})
    IN  [t \in keys |->
            IF t = ZH_TW THEN a.zh_tw
            ELSE IF t = ZH_CN THEN a.zh_cn
            ELSE IF t = JA THEN a.ja
            ELSE a.latin[CHOOSE k \in 1..Len(ltags) : ltags[k] = t]]

\* line 265
raw_tokens(a) ==
    LET fields == split(a.prefer_order)
    IN  [k \in 1..Len(fields) |-> strip(fields[k])]

\* line 268
default_order(a, ltags) ==
    ltags \o <<ZH_TW, ZH_CN>> \o (IF a.ja # "" THEN <<JA>> ELSE <<>>)

RECURSIVE filter_known_only(_, _)
filter_known_only(ord, fm) ==
    IF ord = <<>> THEN <<>>
    ELSE IF Head(ord) \in DOMAIN fm
         THEN <<Head(ord)>> \o filter_known_only(Tail(ord), fm)
         ELSE filter_known_only(Tail(ord), fm)

\* line 270: [t for t in order if t in font_map and font_map[t]]
RECURSIVE filter_order(_, _)
filter_order(ord, fm) ==
    IF ord = <<>> THEN <<>>
    ELSE IF Head(ord) \in DOMAIN fm /\ fm[Head(ord)] # ""
         THEN <<Head(ord)>> \o filter_order(Tail(ord), fm)
         ELSE filter_order(Tail(ord), fm)

\* the fields of --prefer-order the model draws from
FieldPool ==
    { LATIN,
      <<" ">> \o LATIN \o <<" ">>,
      ZH_TW,
      ZH_CN \o <<"\t">>,
      JA,
      <<"x">>,
      <<>> }

FontPaths == {"", "font.ttf"}

\* what the orchestration reads of a font file
RunFontFiles ==
    {f \in FontFiles : f.cff = ~f.glyf /\ ~f.cff2 /\ ~f.fvar}

InitOrder ==
    /\ pc = "font_map"
    /\ \E n \in 1..MaxLatin, fields \in SeqsUpTo(FieldPool, MaxFields) :
          args \in [latin : [1..n -> FontPaths], zh_tw : FontPaths,
                    zh_cn : FontPaths, ja : FontPaths,
                    corpus : {<<>>}, prefer_order : {join(fields)},
                    add_latin1 : {FALSE}, add_cjk_punct : {FALSE},
                    add_jp_syllabaries : {FALSE}, add_halfwidth : {FALSE},
                    add_han_basic : {FALSE}]
    /\ latin_tags = <<>>
    /\ font_map = <<>>
    /\ tokens = <<>>
    /\ resolved = <<>>
    /\ order = <<>>
    /\ fonts_read = 0
    /\ ValAtRest /\ PartAtRest /\ RunAtRest

BuildFontMap ==
    /\ pc = "font_map"
    /\ latin_tags' = LatinTags(Len(args.latin))
    /\ font_map' = build_font_map(args, latin_tags')
    /\ pc' = "resolve"
    /\ UNCHANGED <<args, tokens, resolved, order, valVars, partVars, runVars,
                   fonts_read>>

ResolveOrder ==
    /\ pc = "resolve"
    /\ IF args.prefer_order # <<>>
       THEN /\ tokens' = raw_tokens(args)
            /\ order' = expand_prefer_order(tokens', latin_tags)
       ELSE /\ tokens' = tokens
            /\ order' = default_order(args, latin_tags)
    /\ resolved' = order'
    /\ pc' = "filter"
    /\ UNCHANGED <<args, latin_tags, font_map, valVars, partVars, runVars,
                   fonts_read>>

FilterOrder ==
    /\ pc = "filter"
    /\ order' = filter_order(order, font_map)
    /\ IF order' = <<>>
       THEN pc' = "done" /\ error' = NO_VALID_FONTS
       ELSE pc' = "validate" /\ error' = error
    /\ UNCHANGED <<cliVars, valVars, partVars, tmp_dir, tmp_files,
                   subset_paths, idx, out_file, merge_calls, merge_inputs,
                   merge_saw, subset_calls, tmp_made, removal_failed,
                   fonts_read>>

MainValidateGoesOn ==
    /\ pc = "validate"
    /\ \E fs \in [Range(order) -> RunFontFiles] :
          LET r == validate_fonts(order, fs)
          IN  /\ verdict' = r.verdict
              /\ warned' = r.warned
    /\ pc' = "target"
    /\ fonts_read' = fonts_read + Len(order)
    /\ UNCHANGED <<cliVars, order, fonts, partVars, runVars>>

\* line 274: validate_fonts opens every font of order; SystemExit on mismatch
MainValidate ==
    /\ pc = "validate"
    /\ \E fs \in [Range(order) -> RunFontFiles] :
          LET r == validate_fonts(order, fs)
          IN  /\ verdict' = r.verdict
              /\ warned' = r.warned
              /\ IF r.verdict = "ok"
                 THEN pc' = "target" /\ error' = error
                 ELSE pc' = "done" /\ error' = r.verdict
    /\ fonts_read' = fonts_read + Len(order)
    /\ UNCHANGED <<cliVars, order, fonts, partVars, tmp_dir, tmp_files,
                   subset_paths, idx, out_file, merge_calls, merge_inputs,
                   merge_saw, subset_calls, tmp_made, removal_failed>>

NextOrder == BuildFontMap \/ ResolveOrder \/ FilterOrder \/ MainValidate

SpecOrder == InitOrder /\ [][NextOrder]_vars

Filtered == pc \in {"validate", "target"} \/ (pc = "done" /\ error # "")

PlaceIn(seq, x) == CHOOSE k \in 1..Len(seq) : seq[k] = x

OrderIsFiltered ==
    /\ \A i \in 1..Len(order) :
          order[i] \in DOMAIN font_map /\ font_map[order[i]] # ""
    /\ \A i, j \in 1..Len(order) : i # j => order[i] # order[j]
    /\ Range(order) =
          {t \in Range(resolved) : t \in DOMAIN font_map /\ font_map[t] # ""}
    /\ \A i, j \in 1..Len(order) :
          i < j => PlaceIn(resolved, order[i]) < PlaceIn(resolved, order[j])

EmptyOrderIsFatal ==
    /\ order = <<>> <=> (pc = "done" /\ error = NO_VALID_FONTS)
    /\ order = <<>> => fonts_read = 0 /\ verdict = "" /\ support = <<>>

DefaultTags ==
    [k \in 1..Len(args.latin) |-> LatinTag(k - 1)] \o <<ZH_TW, ZH_CN>>
        \o (IF args.ja # "" THEN <<JA>> ELSE <<>>)

(* C9 as stated: the order used after the filter holds only keys of the font
   map with a non-empty path, in the relative order of the resolved order,
   without duplicates; with no preference string it is all Latin tags, then
   zh-tw, zh-cn, then ja if supplied; an empty order is fatal before any
   font is read. *)
C9_AsStated ==
    Filtered =>
        /\ OrderIsFiltered
        /\ EmptyOrderIsFatal
        /\ args.prefer_order = <<>> => order = DefaultTags

(* C9 amended: as above, but with no preference string the order is the
   Latin tags, zh-tw, zh-cn and ja (if supplied) whose path is non-empty, in
   that sequence: a tag given an empty path is dropped from the default
   order as from any other. *)
C9_OrderFiltering ==
    Filtered =>
        /\ OrderIsFiltered
        /\ EmptyOrderIsFatal
        /\ args.prefer_order = <<>> =>
              /\ resolved = DefaultTags
              /\ \A k \in 1..Len(DefaultTags) :
                    DefaultTags[k] \in Range(order)
                        <=> font_map[DefaultTags[k]] # ""
              /\ (\A k \in 1..Len(DefaultTags) : font_map[DefaultTags[k]] # "")
                    => order = DefaultTags

C9_Witness ==
    /\ pc = "validate"
    /\ args.prefer_order = <<>>
    /\ args.zh_tw = ""
    /\ resolved = <<LatinTag(0), LatinTag(1), ZH_TW, ZH_CN, JA>>
    /\ order = <<LatinTag(0), LatinTag(1), ZH_CN, JA>>

-----------------------------------------------------------------------------
(* main, lines 274-333: validate, target, partition, subset, merge, rename,
   cleanup *)

MaxRunFonts == 3

SUBSET_FAILED == "subset_font raised"
MERGE_FAILED == "pyftmerge failed."
COPY_FAILED == "writing out_path raised"
RENAME_FAILED == "set_font_name raised"

\* os.path.join(tmp_dir, f"{tag}.subset.ttf"), relative to tmp_dir
SubsetPath(tag) ==
    tag \o <<".", "s", "u", "b", "s", "e", "t", ".", "t", "t", "f">>

\* what get_font_unicode_set may return for a font
CoveragePool == {{}, {65, 66}, {66, 67}}

never_skips(keep) == FALSE

\* line 305: `if not keep`
skips(keep) == keep = {}

\* the command line of the runs: one Latin font, zh-tw, zh-cn and ja, all
\* with a path, and the order given by --prefer-order
RunArgs(ord) ==
    [NoArgs EXCEPT !.latin = <<"font.ttf">>, !.zh_tw = "font.ttf",
                   !.zh_cn = "font.ttf", !.ja = "font.ttf",
                   !.prefer_order = join(ord)]

RunTags == {LatinTag(0), ZH_TW, ZH_CN, JA}

RunOrders ==
    {o \in SeqsUpTo(RunTags, MaxRunFonts) :
        o # <<>> /\ \A i, j \in 1..Len(o) : i # j => o[i] # o[j]}

\* main at line 274, for every order the filter can leave
InitRun ==
    /\ pc = "validate"
    /\ order \in RunOrders
    /\ args = RunArgs(order)
    /\ latin_tags = LatinTags(1)
    /\ font_map = build_font_map(args, latin_tags)
    /\ tokens = raw_tokens(args)
    /\ resolved = order
    /\ fonts_read = 0
    /\ ValAtRest /\ PartAtRest /\ RunAtRest

\* line 276
MainBuildTarget ==
    /\ pc = "target"
    /\ target' = build_target(args)
    /\ pc' = "support"
    /\ UNCHANGED <<cliVars, order, valVars, support, assigned, unassigned,
                   queue, cursor, runVars, fonts_read>>

\* line 278
MainSupport ==
    /\ pc = "support"
    /\ support' \in [Range(order) -> CoveragePool]
    /\ fonts_read' = fonts_read + Len(order)
    /\ pc' = "partition_begin"
    /\ UNCHANGED <<cliVars, order, valVars, target, assigned, unassigned,
                   queue, cursor, runVars>>

\* lines 294-295
Mkdtemp ==
    /\ pc = "mkdtemp"
    /\ tmp_dir' = TRUE
    /\ tmp_made' = TRUE
    /\ subset_paths' = <<>>
    /\ idx' = 0
    /\ pc' = "subset"
    /\ UNCHANGED <<cliVars, order, valVars, partVars, tmp_files, out_file,
                   error, merge_calls, merge_inputs, merge_saw, subset_calls,
                   removal_failed, fonts_read>>

InSubsetLoop == pc = "subset" /\ idx < Len(order)

\* lines 304-307: nothing assigned, the font is skipped
SubsetSkip ==
    /\ InSubsetLoop
    /\ skips(assigned[order[idx + 1]])
    /\ idx' = idx + 1
    /\ UNCHANGED <<pc, cliVars, order, valVars, partVars, tmp_dir, tmp_files,
                   subset_paths, out_file, error, merge_calls, merge_inputs,
                   merge_saw, subset_calls, tmp_made, removal_failed,
                   fonts_read>>

\* lines 308-311: subset_font writes the subset file, its path is recorded
SubsetOk ==
    /\ InSubsetLoop
    /\ ~skips(assigned[order[idx + 1]])
    /\ subset_calls' = subset_calls \cup {order[idx + 1]}
    /\ tmp_files' = tmp_files \cup {SubsetPath(order[idx + 1])}
    /\ subset_paths' = Append(subset_paths, SubsetPath(order[idx + 1]))
    /\ idx' = idx + 1
    /\ fonts_read' = fonts_read + 1
    /\ UNCHANGED <<pc, cliVars, order, valVars, partVars, tmp_dir, out_file,
                   error, merge_calls, merge_inputs, merge_saw, tmp_made,
                   removal_failed>>

\* subset_font raises before font.save has created out_path (lines 50-64)
SubsetFailsEarly ==
    /\ InSubsetLoop
    /\ ~skips(assigned[order[idx + 1]])
    /\ subset_calls' = subset_calls \cup {order[idx + 1]}
    /\ error' = SUBSET_FAILED
    /\ pc' = "finally"
    /\ UNCHANGED <<cliVars, order, valVars, partVars, tmp_dir, tmp_files,
                   subset_paths, idx, out_file, merge_calls, merge_inputs,
                   merge_saw, tmp_made, removal_failed, fonts_read>>

\* subset_font raises in font.save or font.close, after out_path was created
\* (lines 66-67); line 310 is not reached
SubsetFailsLate ==
    /\ InSubsetLoop
    /\ ~skips(assigned[order[idx + 1]])
    /\ subset_calls' = subset_calls \cup {order[idx + 1]}
    /\ tmp_files' = tmp_files \cup {SubsetPath(order[idx + 1])}
    /\ error' = SUBSET_FAILED
    /\ pc' = "finally"
    /\ UNCHANGED <<cliVars, order, valVars, partVars, tmp_dir, subset_paths,
                   idx, out_file, merge_calls, merge_inputs, merge_saw,
                   tmp_made, removal_failed, fonts_read>>

AtMerge == pc = "subset" /\ idx = Len(order)

CallMerge ==
    /\ merge_calls' = merge_calls + 1
    /\ merge_inputs' = subset_paths
    /\ merge_saw' = tmp_files

\* line 313, run_pyftmerge: merged file found and copied to out_path
\* (pyftmerge given no font exits non-zero)
MergeOk ==
    /\ AtMerge
    /\ subset_paths # <<>>
    /\ CallMerge
    /\ out_file' = "merged"
    /\ pc' = "rename"
    /\ UNCHANGED <<cliVars, order, valVars, partVars, tmp_dir, tmp_files,
                   subset_paths, idx, error, subset_calls, tmp_made,
                   removal_failed, fonts_read>>

\* lines 88-94: non-zero exit or no merged file, RuntimeError
MergeFails ==
    /\ AtMerge
    /\ CallMerge
    /\ error' = MERGE_FAILED
    /\ pc' = "finally"
    /\ UNCHANGED <<cliVars, order, valVars, partVars, tmp_dir, tmp_files,
                   subset_paths, idx, out_file, subset_calls, tmp_made,
                   removal_failed, fonts_read>>

\* lines 96-97: out_path was opened for writing and the copy raised
MergeCopyFails ==
    /\ AtMerge
    /\ subset_paths # <<>>
    /\ CallMerge
    /\ out_file' = "partial"
    /\ error' = COPY_FAILED
    /\ pc' = "finally"
    /\ UNCHANGED <<cliVars, order, valVars, partVars, tmp_dir, tmp_files,
                   subset_paths, idx, subset_calls, tmp_made, removal_failed,
                   fonts_read>>

\* line 314, set_font_name: the name records are rewritten and saved
RenameOk ==
    /\ pc = "rename"
    /\ out_file' = "renamed"
    /\ pc' = "report"
    /\ fonts_read' = fonts_read + 1
    /\ UNCHANGED <<cliVars, order, valVars, partVars, tmp_dir, tmp_files,
                   subset_paths, idx, error, merge_calls, merge_inputs,
                   merge_saw, subset_calls, tmp_made, removal_failed>>

\* set_font_name raises: opening the merged font or font["name"] (lines
\* 107-108) leaves the merged file as it is, font.save (line 129) may leave
\* it partly written
RenameFails ==
    /\ pc = "rename"
    /\ out_file' \in {"merged", "partial"}
    /\ error' = RENAME_FAILED
    /\ pc' = "finally"
    /\ UNCHANGED <<cliVars, order, valVars, partVars, tmp_dir, tmp_files,
                   subset_paths, idx, merge_calls, merge_inputs, merge_saw,
                   subset_calls, tmp_made, removal_failed, fonts_read>>

\* lines 316-323: count_glyphs and the summary
Report ==
    /\ pc = "report"
    /\ fonts_read' = fonts_read + 1
    /\ pc' = "finally"
    /\ UNCHANGED <<cliVars, order, valVars, partVars, runVars>>

\* the files left in tmp_dir once the first k paths of subset_paths have
\* been through `if os.path.exists(p): os.remove(p)`
AfterRemoving(k) == tmp_files \ {subset_paths[j] : j \in 1..k}

\* lines 325-333, no removal fails by itself: every recorded path is
\* removed; os.rmdir raises on a directory that is not empty, and the
\* except clause swallows it
FinallyCleanup ==
    /\ pc = "finally"
    /\ tmp_files' = AfterRemoving(Len(subset_paths))
    /\ tmp_dir' = (tmp_files' # {})
    /\ pc' = "done"
    /\ UNCHANGED <<cliVars, order, valVars, partVars, subset_paths, idx,
                   out_file, error, merge_calls, merge_inputs, merge_saw,
                   subset_calls, tmp_made, removal_failed, fonts_read>>

\* lines 325-333, the (k+1)-th removal (an os.remove, or the os.rmdir when
\* k = len(subset_paths)) raises by itself; the rest of the cleanup is
\* skipped and the exception swallowed
FinallyRemovalFails ==
    /\ pc = "finally"
    /\ \E k \in 0..Len(subset_paths) : tmp_files' = AfterRemoving(k)
    /\ removal_failed' = TRUE
    /\ pc' = "done"
    /\ UNCHANGED <<cliVars, order, valVars, partVars, tmp_dir, subset_paths,
                   idx, out_file, error, merge_calls, merge_inputs, merge_saw,
                   subset_calls, tmp_made, fonts_read>>

NextRun ==
    \/ MainValidate
    \/ MainBuildTarget
    \/ MainSupport
    \/ PartitionBegin
    \/ PartitionStep
    \/ PartitionEnd
    \/ Mkdtemp
    \/ SubsetSkip
    \/ SubsetOk
    \/ SubsetFailsEarly
    \/ SubsetFailsLate
    \/ MergeOk
    \/ MergeFails
    \/ MergeCopyFails
    \/ RenameOk
    \/ RenameFails
    \/ Report
    \/ FinallyCleanup
    \/ FinallyRemovalFails

SpecRun == InitRun /\ [][NextRun]_vars

(* C5: a run that fails before set_font_name has completed leaves no file
   at args.out. *)
C5_NoOutputAfterFailure ==
    (pc = "done" /\ error # "" /\ out_file # "renamed") => out_file = "absent"

(* C6: when main ends after mkdtemp, and no removal failed by itself, no
   subset file written into the temporary directory exists any more, nor
   does the directory itself. *)
C6_TempArtifactsRemoved ==
    (pc = "done" /\ tmp_made /\ ~removal_failed) =>
        /\ tmp_files = {}
        /\ ~tmp_dir

ValidationFailed == verdict \in {UPEM_MISMATCH, OUTLINE_MISMATCH}

NoWorkDone ==
    /\ ~tmp_made /\ ~tmp_dir /\ tmp_files = {}
    /\ subset_calls = {} /\ subset_paths = <<>>
    /\ merge_calls = 0
    /\ out_file = "absent"

(* C7: a run in which validate_fonts fails ends there with that error; up to
   and including that state no temporary directory was made, no subset was
   requested, the merge was not invoked and no output file was written. *)
C7_ValidationFailsBeforeWork ==
    /\ pc = "validate" => NoWorkDone
    /\ ValidationFailed => (pc = "done" /\ error = verdict /\ NoWorkDone)
    /\ (pc \notin {"validate", "done"} \/ tmp_made) => verdict = "ok"

C7_Witness ==
    /\ pc = "done"
    /\ verdict = OUTLINE_MISMATCH
    /\ Len(order) = 3

\* the subset artifacts of the fonts of order with a non-empty assignment
RECURSIVE ArtifactsOf(_)
ArtifactsOf(ord) ==
    IF ord = <<>> THEN <<>>
    ELSE IF assigned[Head(ord)] = {} THEN ArtifactsOf(Tail(ord))
    ELSE <<SubsetPath(Head(ord))>> \o ArtifactsOf(Tail(ord))

Partitioned == pc \in {"mkdtemp", "subset", "rename", "report", "finally"} \/ tmp_made

(* C10: the merge is invoked at most once, exactly once in a run that gets
   past the subset loop, and only when the subset of every font with a
   non-empty assignment is complete; its inputs are the subset artifacts of
   those fonts in priority order; a font with an empty assignment is never
   subset. *)
C10_MergeInputs ==
    /\ merge_calls \in {0, 1}
    /\ (pc \in {"rename", "report"} \/ out_file # "absent") => merge_calls = 1
    /\ (pc \in {"finally", "done"} /\ tmp_made /\ error \notin {SUBSET_FAILED})
          => merge_calls = 1
    /\ Partitioned =>
          /\ \A t \in subset_calls : t \in Range(order) /\ assigned[t] # {}
          /\ merge_calls = 1 =>
                /\ merge_inputs = ArtifactsOf(order)
                /\ Range(merge_inputs) \subseteq merge_saw
                /\ subset_calls = {t \in Range(order) : assigned[t] # {}}
                /\ idx = Len(order)

C10_Witness ==
    /\ pc = "rename"
    /\ merge_calls = 1
    /\ Len(order) = 3
    /\ Len(merge_inputs) = 2
    /\ assigned[order[2]] = {}

=============================================================================
